---- MODULE Spec2Model ----
(***************************************************************************)
(* Field-access engine of upb messages (upb/message/internal/accessors.h). *)
(* A message is a byte region; a field descriptor (upb_MiniTableField)     *)
(* names an offset, a presence encoding, a field number and a              *)
(* representation class.  Extensions live out of line in an arena-owned    *)
(* array referenced by the window [ext_begin, size).                       *)
(***************************************************************************)
EXTENDS Integers, Sequences, FiniteSets, TLC

VARIABLES msg, internal, mapsMade, lastOp

vars == <<msg, internal, mapsMade, lastOp>>

(***************************************************************************)
(* Bounds of the model.                                                    *)
(***************************************************************************)
\* number of extension descriptors registered for the message type
NumExt == 2
\* number of maps the map collaborator may construct in one behaviour
MaxMaps == 2

(***************************************************************************)
(* Bytes and fixed-width values.  A value is a sequence of bytes.          *)
(***************************************************************************)
Zeros(n) == [i \in 1..n |-> 0]

\* little-endian bytes of an unsigned integer x in n bytes
RECURSIVE LE(_, _)
LE(x, n) == IF n = 0 THEN << >> ELSE <<x % 256>> \o LE(x \div 256, n - 1)

\* unsigned integer held by a little-endian byte sequence
RECURSIVE FromLE(_)
FromLE(b) == IF Len(b) = 0 THEN 0 ELSE b[1] + 256 * FromLE(Tail(b))

\* UPB_PTR_AT(msg, ofs, T) read of n bytes
ReadBytes(m, ofs, n) == [i \in 1..n |-> m[ofs + i - 1]]

\* memcpy(msg + ofs, bytes, Len(bytes))
WriteBytes(m, ofs, bytes) ==
  [k \in DOMAIN m |->
     IF k >= ofs /\ k < ofs + Len(bytes) THEN bytes[k - ofs + 1] ELSE m[k]]

\* bitwise operations on one byte (char) against a one-bit mask
ByteTest(b, mask) == (b \div mask) % 2 = 1
ByteOr(b, mask) == IF ByteTest(b, mask) THEN b ELSE b + mask
ByteAndNot(b, mask) == IF ByteTest(b, mask) THEN b - mask ELSE b

(***************************************************************************)
(* Representation classes (upb_FieldRep) and the transcoder.               *)
(***************************************************************************)
Reps == {"1Byte", "4Byte", "8Byte", "StringView"}

\* sizeof(upb_StringView): a data pointer followed by a size_t
SizeofStringView == 16
SizeofPtr == 8

RepWidth(rep) ==
  CASE rep = "1Byte" -> 1
    [] rep = "4Byte" -> 4
    [] rep = "8Byte" -> 8
    [] rep = "StringView" -> SizeofStringView

\* a upb_StringView {data, size} as its 16 bytes
StringView(data, size) == LE(data, SizeofPtr) \o LE(size, SizeofPtr)
SvData(v) == FromLE(SubSeq(v, 1, SizeofPtr))
SvSize(v) == FromLE(SubSeq(v, SizeofPtr + 1, SizeofStringView))

upb_MiniTable_ValueIsNonZero(default_val, field) ==
  IF field.rep = "StringView"
    THEN SvSize(default_val) # 0
    ELSE SubSeq(default_val, 1, RepWidth(field.rep)) # Zeros(RepWidth(field.rep))

\* the bytes _upb_MiniTable_CopyFieldData copies out of `from`
upb_MiniTable_CopyFieldData(from, field) == SubSeq(from, 1, RepWidth(field.rep))

(***************************************************************************)
(* Field descriptors (upb_MiniTableField) of the message type under test.  *)
(* presence > 0: hasbit index; presence < 0: ~presence is the offset of    *)
(* the 4-byte oneof case slot; presence = 0: implicit presence.            *)
(*   byte 0..1   hasbit bitmap (bit 0 is never used as a hasbit)           *)
(*   byte 2      H  1-byte,       hasbit 7                                 *)
(*   byte 4..7   A  4-byte,       hasbit 1                                 *)
(*   byte 8..11  case slot of the oneof {B, C}                             *)
(*   byte 16..31 B  string view,  oneof member number 10                   *)
(*   byte 16..19 C  4-byte,       oneof member number 11 (aliases B)       *)
(*   byte 32..47 D  string view,  implicit presence                        *)
(*   byte 48..63 S  string view,  hasbit 8                                 *)
(*   byte 64..71 M  map pointer,  implicit presence                        *)
(***************************************************************************)
Field(number, offset, presence, rep) ==
  [number |-> number, offset |-> offset, presence |-> presence, rep |-> rep,
   isExtension |-> FALSE]

fA == Field(1, 4, 1, "4Byte")
fH == Field(2, 2, 7, "1Byte")
fB == Field(10, 16, -9, "StringView")
fC == Field(11, 16, -9, "4Byte")
fD == Field(4, 32, 0, "StringView")
fS == Field(5, 48, 8, "StringView")
fM == Field(6, 64, 0, "8Byte")

MsgBytes == 0..71

HasbitFields == {fA, fH, fS}
OneofFields == {fB, fC}
ScalarFields == {fA, fH, fB, fC, fD, fS}
Fields == ScalarFields \cup {fM}

\* members of the oneof group that f belongs to
OneofGroup(f) == {g \in OneofFields : g.presence = f.presence}

(***************************************************************************)
(* Values the callers pass.  String data lives at addresses 64 and 80; the  *)
(* view (80, 0) is an empty string with a non-null data pointer.            *)
(***************************************************************************)
Vals(rep) ==
  CASE rep = "1Byte" -> {<<0>>, <<1>>}
    [] rep = "4Byte" -> {LE(0, 4), LE(9, 4)}
    [] rep = "8Byte" -> {LE(0, 8), LE(3, 8)}
    [] rep = "StringView" -> {StringView(80, 0), StringView(64, 1)}

\* default values a getter may be given: zero and non-zero ones
Defaults(rep) ==
  CASE rep = "1Byte" -> {<<0>>, <<1>>}
    [] rep = "4Byte" -> {LE(0, 4), LE(5, 4), LE(7, 4)}
    [] rep = "8Byte" -> {LE(0, 8), LE(3, 8)}
    [] rep = "StringView" -> {StringView(0, 0), StringView(80, 0), StringView(96, 2)}

\* Two values of a representation class denote the same field value: equal
\* bytes, or, for string views, equal sizes and (when non-empty) equal data.
\* A string view of size 0 is the empty string whatever its data pointer.
SameValue(rep, a, b) ==
  IF rep = "StringView"
    THEN SvSize(a) = SvSize(b) /\ (SvSize(a) = 0 \/ SvData(a) = SvData(b))
    ELSE a = b

(***************************************************************************)
(* Hasbit access.                                                          *)
(***************************************************************************)
upb_hasbit_ofs(idx) == idx \div 8

upb_hasbit_mask(idx) == 2 ^ (idx % 8)

upb_hasbit(m, idx) == ByteTest(m[upb_hasbit_ofs(idx)], upb_hasbit_mask(idx))

\* faulty variant: setting a hasbit overwrites its bitmap byte with the mask
sethas_Overwrite(m, idx) ==
  [m EXCEPT ![upb_hasbit_ofs(idx)] = upb_hasbit_mask(idx)]

upb_sethas(m, idx) ==
  [m EXCEPT ![upb_hasbit_ofs(idx)] = ByteOr(@, upb_hasbit_mask(idx))]

\* faulty variant: clearing a hasbit zeroes its whole bitmap byte
clearhas_WholeByte(m, idx) ==
  [m EXCEPT ![upb_hasbit_ofs(idx)] = 0]

upb_clearhas(m, idx) ==
  [m EXCEPT ![upb_hasbit_ofs(idx)] = ByteAndNot(@, upb_hasbit_mask(idx))]

\* UPB_ASSERT(f->presence > 0) is the caller's obligation
upb_Message_Hasidx(f) == f.presence

upb_hasbit_field(m, f) == upb_hasbit(m, upb_Message_Hasidx(f))

upb_sethas_field(m, f) == upb_sethas(m, upb_Message_Hasidx(f))

(***************************************************************************)
(* Oneof case access.                                                      *)
(***************************************************************************)
\* ~(ptrdiff_t)f->presence
upb_oneofcase_ofs(f) == (-f.presence) - 1

upb_getoneofcase_field(m, f) == FromLE(ReadBytes(m, upb_oneofcase_ofs(f), 4))

\* *_upb_oneofcase_field(msg, f) = number
SetOneofCase(m, f, number) == WriteBytes(m, upb_oneofcase_ofs(f), LE(number, 4))

upb_MiniTableField_InOneOf(field) == field.presence < 0

\* faulty variant: the case slot is written as a flag, not as the member's number
SetPresence_CaseAsFlag(m, field) ==
  IF field.presence > 0 THEN upb_sethas_field(m, field)
  ELSE IF upb_MiniTableField_InOneOf(field)
    THEN SetOneofCase(m, field, 1)
    ELSE m

upb_Message_SetPresence(m, field) ==
  IF field.presence > 0 THEN upb_sethas_field(m, field)
  ELSE IF upb_MiniTableField_InOneOf(field)
    THEN SetOneofCase(m, field, field.number)
    ELSE m

(***************************************************************************)
(* Non-extension accessors.                                                *)
(***************************************************************************)
\* faulty variant: a oneof member reports has whenever any member is active
Has_AnyCaseActive(m, field) ==
  IF upb_MiniTableField_InOneOf(field)
    THEN upb_getoneofcase_field(m, field) # 0
    ELSE upb_hasbit_field(m, field)

upb_Message_HasNonExtensionField(m, field) ==
  IF upb_MiniTableField_InOneOf(field)
    THEN upb_getoneofcase_field(m, field) = field.number
    ELSE upb_hasbit_field(m, field)

\* the bytes stored at the field's offset
Stored(m, field) == ReadBytes(m, field.offset, RepWidth(field.rep))

\* faulty variant: the has-check is made for non-zero defaults only, not for oneofs
Get_SkipOneofCheck(m, field, default_val) ==
  IF upb_MiniTable_ValueIsNonZero(default_val, field)
       /\ ~upb_Message_HasNonExtensionField(m, field)
    THEN upb_MiniTable_CopyFieldData(default_val, field)
    ELSE upb_MiniTable_CopyFieldData(Stored(m, field), field)

\* faulty variant: the has-check is made for oneof members only
Get_IgnoreNonZeroDefault(m, field, default_val) ==
  IF upb_MiniTableField_InOneOf(field)
       /\ ~upb_Message_HasNonExtensionField(m, field)
    THEN upb_MiniTable_CopyFieldData(default_val, field)
    ELSE upb_MiniTable_CopyFieldData(Stored(m, field), field)

\* faulty variant: the has-check is made for every field and default
Get_AlwaysCheckHas(m, field, default_val) ==
  IF ~upb_Message_HasNonExtensionField(m, field)
    THEN upb_MiniTable_CopyFieldData(default_val, field)
    ELSE upb_MiniTable_CopyFieldData(Stored(m, field), field)

upb_Message_GetNonExtensionField(m, field, default_val) ==
  IF (upb_MiniTableField_InOneOf(field)
        \/ upb_MiniTable_ValueIsNonZero(default_val, field))
       /\ ~upb_Message_HasNonExtensionField(m, field)
    THEN upb_MiniTable_CopyFieldData(default_val, field)
    ELSE upb_MiniTable_CopyFieldData(Stored(m, field), field)

\* faulty variant: set copies the value but records no presence
Set_NoPresence(m, field, val) ==
  WriteBytes(m, field.offset, upb_MiniTable_CopyFieldData(val, field))

upb_Message_SetNonExtensionField(m, field, val) ==
  WriteBytes(upb_Message_SetPresence(m, field), field.offset,
             upb_MiniTable_CopyFieldData(val, field))

\* faulty variant: a hasbit field's clear drops the hasbit and leaves the storage
Clear_KeepHasbitStorage(m, field) ==
  IF field.presence > 0
    THEN upb_clearhas(m, upb_Message_Hasidx(field))
  ELSE IF upb_MiniTableField_InOneOf(field)
    THEN IF upb_getoneofcase_field(m, field) # field.number
           THEN m
           ELSE WriteBytes(SetOneofCase(m, field, 0), field.offset,
                           Zeros(RepWidth(field.rep)))
    ELSE WriteBytes(m, field.offset, Zeros(RepWidth(field.rep)))

\* faulty variant: a oneof member's clear does not look at the case slot
Clear_NoCaseCheck(m, field) ==
  IF field.presence > 0
    THEN WriteBytes(upb_clearhas(m, upb_Message_Hasidx(field)), field.offset,
                    Zeros(RepWidth(field.rep)))
  ELSE IF upb_MiniTableField_InOneOf(field)
    THEN WriteBytes(SetOneofCase(m, field, 0), field.offset,
                    Zeros(RepWidth(field.rep)))
    ELSE WriteBytes(m, field.offset, Zeros(RepWidth(field.rep)))

\* faulty variant: a oneof member's clear zero-fills the whole 16-byte union
Clear_ZeroWholeUnion(m, field) ==
  IF field.presence > 0
    THEN WriteBytes(upb_clearhas(m, upb_Message_Hasidx(field)), field.offset,
                    Zeros(RepWidth(field.rep)))
  ELSE IF upb_MiniTableField_InOneOf(field)
    THEN IF upb_getoneofcase_field(m, field) # field.number
           THEN m
           ELSE WriteBytes(SetOneofCase(m, field, 0), field.offset,
                           Zeros(SizeofStringView))
    ELSE WriteBytes(m, field.offset, Zeros(RepWidth(field.rep)))

upb_Message_ClearNonExtensionField(m, field) ==
  LET zero == WriteBytes(m, field.offset, Zeros(RepWidth(field.rep)))
  IN IF field.presence > 0
       THEN WriteBytes(upb_clearhas(m, upb_Message_Hasidx(field)), field.offset,
                       Zeros(RepWidth(field.rep)))
     ELSE IF upb_MiniTableField_InOneOf(field)
       THEN IF upb_getoneofcase_field(m, field) # field.number
              THEN m
              ELSE WriteBytes(SetOneofCase(m, field, 0), field.offset,
                              Zeros(RepWidth(field.rep)))
       ELSE zero

(***************************************************************************)
(* Extensions.  An extension descriptor (upb_MiniTableExtension) wraps a   *)
(* field descriptor; its identity is the lookup key.  An entry             *)
(* (upb_Message_Extension) is the pair {ext, data}, data a 16-byte union.  *)
(* The message's internal header references a buffer of `size` entry       *)
(* slots; the active window is the slots ext_begin+1 .. size, and new      *)
(* entries are added at the front (ext_begin moves down).                  *)
(***************************************************************************)
ExtIds == 1..NumExt

ExtRep(i) == IF i % 2 = 1 THEN "4Byte" ELSE "1Byte"

Ext(i) ==
  [id |-> i,
   field |-> [number |-> 100 + i, offset |-> 0, presence |-> 0,
              rep |-> ExtRep(i), isExtension |-> TRUE]]

Exts == {Ext(i) : i \in ExtIds}

\* sizeof the data union of upb_Message_Extension, in bytes
ExtDataBytes == 16

\* slots of the buffer the first allocation provides
InitExtCap == 1

\* in->internal == NULL
NoInternal == [size |-> 0, ext_begin |-> 0, slots |-> << >>]

\* a slot no entry was ever written to
FreeSlot == [ext |-> 0, data |-> Zeros(ExtDataBytes)]

\* indexes of the slots inside the active window
Window(in) == (in.ext_begin + 1)..in.size

\* _upb_Message_Getext: the first entry of the window whose descriptor is e
\* (its slot index), 0 when there is none
upb_Message_Getext(in, e) ==
  IF \E i \in Window(in) : in.slots[i].ext = e.id
    THEN CHOOSE i \in Window(in) :
           /\ in.slots[i].ext = e.id
           /\ \A j \in Window(in) : in.slots[j].ext = e.id => i <= j
    ELSE 0

\* Room for one more entry: allocates the buffer, or doubles it and moves the
\* window to the end of the new buffer.  On arena failure nothing changes.
upb_Message_Realloc(in, arenaOk) ==
  IF in.size # 0 /\ in.ext_begin >= 1 THEN [ok |-> TRUE, internal |-> in]
  ELSE IF ~arenaOk THEN [ok |-> FALSE, internal |-> in]
  ELSE IF in.size = 0
    THEN [ok |-> TRUE,
          internal |-> [size |-> InitExtCap, ext_begin |-> InitExtCap,
                        slots |-> [i \in 1..InitExtCap |-> FreeSlot]]]
    ELSE [ok |-> TRUE,
          internal |-> [size |-> 2 * in.size, ext_begin |-> in.size,
                        slots |-> [i \in 1..(2 * in.size) |->
                                     IF i > in.size THEN in.slots[i - in.size]
                                                    ELSE FreeSlot]]]

\* _upb_Message_GetOrCreateExtension: the entry of e, created zeroed at the
\* front of the window when absent; ext = 0 (NULL) when the arena fails
upb_Message_GetOrCreateExtension(in, e, arenaOk) ==
  LET found == upb_Message_Getext(in, e)
      r == upb_Message_Realloc(in, arenaOk)
      b == r.internal.ext_begin
  IN IF found # 0 THEN [ext |-> found, internal |-> in]
     ELSE IF ~r.ok THEN [ext |-> 0, internal |-> r.internal]
     ELSE [ext |-> b,
           internal |-> [r.internal EXCEPT
                           !.ext_begin = b - 1,
                           !.slots[b] = [ext |-> e.id, data |-> Zeros(ExtDataBytes)]]]

\* memcpy into the data union of an entry
WriteData(data, bytes) ==
  [k \in 1..ExtDataBytes |-> IF k <= Len(bytes) THEN bytes[k] ELSE data[k]]

upb_Message_HasExtensionField(in, ext) == upb_Message_Getext(in, ext) # 0

upb_Message_GetExtensionField(in, mt_ext, default_val) ==
  LET ext == upb_Message_Getext(in, mt_ext)
  IN IF ext # 0
       THEN upb_MiniTable_CopyFieldData(in.slots[ext].data, mt_ext.field)
       ELSE upb_MiniTable_CopyFieldData(default_val, mt_ext.field)

\* faulty variant: an entry that exists already is reported set without the copy
SetExt_SkipCopyWhenFound(in, mt_ext, val, arenaOk) ==
  LET r == upb_Message_GetOrCreateExtension(in, mt_ext, arenaOk)
  IN IF r.ext = 0 THEN [ok |-> FALSE, internal |-> r.internal]
     ELSE IF upb_Message_Getext(in, mt_ext) # 0 THEN [ok |-> TRUE, internal |-> r.internal]
     ELSE [ok |-> TRUE,
           internal |-> [r.internal EXCEPT
                           !.slots[r.ext].data =
                              WriteData(@, upb_MiniTable_CopyFieldData(val, mt_ext.field))]]

\* faulty variant: the null entry of a failed creation is not checked
SetExt_IgnoreNull(in, mt_ext, val, arenaOk) ==
  LET r == upb_Message_GetOrCreateExtension(in, mt_ext, arenaOk)
  IN IF r.ext = 0 THEN [ok |-> TRUE, internal |-> r.internal]
     ELSE [ok |-> TRUE,
           internal |-> [r.internal EXCEPT
                           !.slots[r.ext].data =
                              WriteData(@, upb_MiniTable_CopyFieldData(val, mt_ext.field))]]

\* returns the bool result and the internal data after the call
upb_Message_SetExtensionField(in, mt_ext, val, arenaOk) ==
  LET r == upb_Message_GetOrCreateExtension(in, mt_ext, arenaOk)
  IN IF r.ext = 0 THEN [ok |-> FALSE, internal |-> r.internal]
     ELSE [ok |-> TRUE,
           internal |-> [r.internal EXCEPT
                           !.slots[r.ext].data =
                              WriteData(@, upb_MiniTable_CopyFieldData(val, mt_ext.field))]]

\* faulty variant: the window's front is dropped without being copied over the target
ClearExt_AdvanceOnly(in, ext_l) ==
  IF in.size = 0 THEN in
  ELSE LET ext == upb_Message_Getext(in, ext_l)
       IN IF ext # 0 THEN [in EXCEPT !.ext_begin = in.ext_begin + 1] ELSE in

\* faulty variant: the target is overwritten with the front but begin is not advanced
ClearExt_NoAdvance(in, ext_l) ==
  IF in.size = 0 THEN in
  ELSE LET ext == upb_Message_Getext(in, ext_l)
       IN IF ext # 0
            THEN [in EXCEPT !.slots[ext] = in.slots[in.ext_begin + 1]]
            ELSE in

\* faulty variant: the target is overwritten with the window's last entry
ClearExt_CopyLast(in, ext_l) ==
  IF in.size = 0 THEN in
  ELSE LET ext == upb_Message_Getext(in, ext_l)
       IN IF ext # 0
            THEN [in EXCEPT !.slots[ext] = in.slots[in.size],
                            !.ext_begin = in.ext_begin + 1]
            ELSE in

upb_Message_ClearExtensionField(in, ext_l) ==
  IF in.size = 0 THEN in
  ELSE LET ext == upb_Message_Getext(in, ext_l)
       IN IF ext # 0
            THEN [in EXCEPT !.slots[ext] = in.slots[in.ext_begin + 1],
                            !.ext_begin = in.ext_begin + 1]
            ELSE in

(***************************************************************************)
(* Map field initializer.                                                  *)
(***************************************************************************)
\* address of the n-th map the map collaborator constructs (16-aligned)
MapAddr(n) == 16 * n

\* _upb_Map_New: a fresh map, or NULL (0) when the arena is exhausted
upb_Map_New(made, arenaOk) == IF arenaOk THEN MapAddr(made + 1) ELSE 0

\* faulty variant: the new map is returned but not stored in the field
GetOrCreateMap_NoStore(m, field, made, arenaOk) ==
  LET map == FromLE(upb_Message_GetNonExtensionField(m, field, LE(0, SizeofPtr)))
      new == upb_Map_New(made, arenaOk)
  IN IF map = 0
       THEN [map |-> new, msg |-> m, made |-> IF new # 0 THEN made + 1 ELSE made]
       ELSE [map |-> map, msg |-> m, made |-> made]

\* faulty variant: a map is constructed and stored whatever the field holds
GetOrCreateMap_AlwaysCreate(m, field, made, arenaOk) ==
  LET new == upb_Map_New(made, arenaOk)
  IN [map |-> new,
      msg |-> upb_Message_SetNonExtensionField(m, field, LE(new, SizeofPtr)),
      made |-> IF new # 0 THEN made + 1 ELSE made]

\* returns the map reference, the message bytes and the number of maps
\* constructed so far
upb_Message_GetOrCreateMutableMap(m, field, made, arenaOk) ==
  LET map == FromLE(upb_Message_GetNonExtensionField(m, field, LE(0, SizeofPtr)))
      new == upb_Map_New(made, arenaOk)
  IN IF map = 0
       THEN [map |-> new,
             msg |-> upb_Message_SetNonExtensionField(m, field, LE(new, SizeofPtr)),
             made |-> IF new # 0 THEN made + 1 ELSE made]
       ELSE [map |-> map, msg |-> m, made |-> made]

(***************************************************************************)
(* State machine.  msg is the message's byte region, internal the          *)
(* extension buffer behind its internal header, mapsMade the number of     *)
(* maps the map collaborator has constructed, lastOp the last call made    *)
(* on the message and what it returned.                                    *)
(***************************************************************************)
Op(op, number, v, had, ok, ref) ==
  [op |-> op, f |-> number, v |-> v, had |-> had, ok |-> ok, ref |-> ref]

\* a message as the arena hands it out: zero-initialised, no extensions
Init ==
  /\ msg = [k \in MsgBytes |-> 0]
  /\ internal = NoInternal
  /\ mapsMade = 0
  /\ lastOp = Op("new", 0, << >>, FALSE, TRUE, 0)

\* whether the caller would have seen field f as present before the call
WasPresent(m, f) == f.presence # 0 /\ upb_Message_HasNonExtensionField(m, f)

\* _upb_Message_SetField on a non-extension field of the set FS
SetNonExt(FS) ==
  \E f \in FS : \E v \in Vals(f.rep) :
    /\ msg' = upb_Message_SetNonExtensionField(msg, f, v)
    /\ lastOp' = Op("set", f.number, v, WasPresent(msg, f), TRUE, 0)
    /\ UNCHANGED <<internal, mapsMade>>

\* _upb_Message_ClearNonExtensionField on a field of the set FS
ClearNonExt(FS) ==
  \E f \in FS :
    /\ msg' = upb_Message_ClearNonExtensionField(msg, f)
    /\ lastOp' = Op("clear", f.number, << >>, WasPresent(msg, f), TRUE, 0)
    /\ UNCHANGED <<internal, mapsMade>>

\* _upb_Message_GetOrCreateMutableMap on the map field M, with an arena that
\* can or cannot supply memory
GetOrCreateMap ==
  \E arenaOk \in BOOLEAN :
    LET r == upb_Message_GetOrCreateMutableMap(msg, fM, mapsMade, arenaOk)
    IN /\ r.made <= MaxMaps
       /\ msg' = r.msg
       /\ mapsMade' = r.made
       /\ lastOp' = Op("map", fM.number, << >>, Stored(msg, fM) # Zeros(SizeofPtr),
                       r.made # mapsMade, r.map)
       /\ UNCHANGED internal

\* _upb_Message_SetField on an extension
SetExt ==
  \E e \in Exts : \E v \in Vals(e.field.rep) : \E arenaOk \in BOOLEAN :
    LET r == upb_Message_SetExtensionField(internal, e, v, arenaOk)
    IN /\ internal' = r.internal
       /\ lastOp' = Op("setext", e.field.number, v,
                       upb_Message_HasExtensionField(internal, e), r.ok, 0)
       /\ UNCHANGED <<msg, mapsMade>>

\* _upb_Message_ClearExtensionField on an extension of the set ES
ClearExtOf(ES) ==
  \E e \in ES :
    /\ internal' = upb_Message_ClearExtensionField(internal, e)
    /\ lastOp' = Op("clearext", e.field.number, << >>,
                    upb_Message_HasExtensionField(internal, e), TRUE, 0)
    /\ UNCHANGED <<msg, mapsMade>>

ClearExt == ClearExtOf(Exts)

\* plain fields and the map field
Next ==
  \/ SetNonExt(ScalarFields)
  \/ ClearNonExt(Fields)
  \/ GetOrCreateMap

Spec == Init /\ [][Next]_vars

\* extensions, over a message whose plain fields A and C are in use
NextExt ==
  \/ SetExt
  \/ ClearExt
  \/ SetNonExt({fA, fC})
  \/ ClearNonExt({fA, fC})

SpecExt == Init /\ [][NextExt]_vars


(***************************************************************************)
(* The unified setter.  A descriptor handle is [id, field]: a plain field  *)
(* has id 0, an extension descriptor carries its identity.  The arena      *)
(* argument is a null pointer, an arena that can supply memory, or one     *)
(* that is exhausted.                                                      *)
(***************************************************************************)
AsDesc(f) == [id |-> 0, field |-> f]

Arenas == {"null", "ok", "exhausted"}

\* faulty variant: the plain-field branch reports whether the arena could
\* have supplied memory
SetField_ReportArena(m, in, desc, val, a) ==
  IF desc.field.isExtension
    THEN LET r == upb_Message_SetExtensionField(in, desc, val, a = "ok")
         IN [ok |-> r.ok, msg |-> m, internal |-> r.internal]
    ELSE [ok |-> a = "ok",
          msg |-> upb_Message_SetNonExtensionField(m, desc.field, val),
          internal |-> in]

\* _upb_Message_SetField
upb_Message_SetField(m, in, desc, val, a) ==
  IF desc.field.isExtension
    THEN LET r == upb_Message_SetExtensionField(in, desc, val, a = "ok")
         IN [ok |-> r.ok, msg |-> m, internal |-> r.internal]
    ELSE [ok |-> TRUE,
          msg |-> upb_Message_SetNonExtensionField(m, desc.field, val),
          internal |-> in]


\* the plain fields the unified setter is driven with: hasbits 1 and 7 share
\* a bitmap byte, B and C are the members of the oneof
UFields == {fA, fH, fB, fC}

\* the extension the unified setter is driven with
UExts == {Ext(1)}

UDescs == {AsDesc(f) : f \in UFields} \cup UExts

\* the record of a unified set: Op plus the arena the call was given
OpA(number, v, had, ok, a) ==
  [op |-> "setfield", f |-> number, v |-> v, had |-> had, ok |-> ok, ref |-> 0,
   arena |-> a]

\* _upb_Message_SetField on any descriptor; an extension set is given a
\* non-null arena (UPB_ASSERT(a) in _upb_Message_SetExtensionField)
SetField ==
  \E desc \in UDescs : \E v \in Vals(desc.field.rep) : \E a \in Arenas :
    /\ desc.field.isExtension => a # "null"
    /\ LET r == upb_Message_SetField(msg, internal, desc, v, a)
       IN /\ msg' = r.msg
          /\ internal' = r.internal
          /\ lastOp' = OpA(desc.field.number, v,
                           IF desc.field.isExtension
                             THEN upb_Message_HasExtensionField(internal, desc)
                             ELSE WasPresent(msg, desc.field),
                           r.ok, a)
    /\ UNCHANGED mapsMade

\* the unified setter with the clears of both kinds of field
NextUnified ==
  \/ SetField
  \/ ClearNonExt(UFields)
  \/ ClearExtOf(UExts)

SpecUnified == Init /\ [][NextUnified]_vars


\* the oneof {B, C} beside the hasbit field A
NextOneof ==
  \/ SetNonExt({fA} \cup OneofFields)
  \/ ClearNonExt({fA} \cup OneofFields)

SpecOneof == Init /\ [][NextOneof]_vars


(***************************************************************************)
(* Assertions.  For each accessor, the UPB_ASSERTs a call on descriptor f  *)
(* evaluates to false, following the accessor's control flow.              *)
(***************************************************************************)
\* _upb_Message_Hasidx: UPB_ASSERT(f->presence > 0)
Asserts_Hasidx(f) == IF f.presence > 0 THEN {} ELSE {"Hasidx: presence > 0"}

\* _upb_oneofcase_ofs: UPB_ASSERT(f->presence < 0)
Asserts_oneofcase_ofs(f) ==
  IF f.presence < 0 THEN {} ELSE {"oneofcase_ofs: presence < 0"}

\* UPB_ASSUME(!upb_MiniTableField_IsExtension(field))
Asserts_NotExtension(f) ==
  IF f.isExtension THEN {"!IsExtension(field)"} ELSE {}

\* _upb_Message_HasNonExtensionField: UPB_ASSERT(upb_MiniTableField_HasPresence)
\* and then the oneof or the hasbit branch
Asserts_Has(f) ==
  (IF f.presence # 0 THEN {} ELSE {"Has: HasPresence(field)"})
    \cup Asserts_NotExtension(f)
    \cup (IF upb_MiniTableField_InOneOf(f) THEN Asserts_oneofcase_ofs(f)
                                            ELSE Asserts_Hasidx(f))

\* faulty variant: get evaluates the has-check for every field and default
Asserts_Get_AlwaysCheckHas(f, default_val) ==
  Asserts_NotExtension(f) \cup Asserts_Has(f)

\* _upb_Message_GetNonExtensionField: the has-check is evaluated only when
\* the field is in a oneof or the default is non-zero (&& short-circuits)
Asserts_Get(f, default_val) ==
  Asserts_NotExtension(f)
    \cup (IF upb_MiniTableField_InOneOf(f) \/ upb_MiniTable_ValueIsNonZero(default_val, f)
            THEN Asserts_Has(f)
            ELSE {})

\* _upb_Message_SetPresence, reached from _upb_Message_SetNonExtensionField
Asserts_Set(f) ==
  Asserts_NotExtension(f)
    \cup (IF f.presence > 0 THEN Asserts_Hasidx(f)
          ELSE IF upb_MiniTableField_InOneOf(f) THEN Asserts_oneofcase_ofs(f)
          ELSE {})

\* _upb_Message_ClearNonExtensionField
Asserts_Clear(f) ==
  IF f.presence > 0 THEN Asserts_Hasidx(f)
  ELSE IF upb_MiniTableField_InOneOf(f) THEN Asserts_oneofcase_ofs(f)
  ELSE {}

\* upb_TaggedMessagePtr_IsEmpty: the low bit of the stored pointer is set
TaggedPtrIsEmpty(ptr) == ptr % 2 = 1

\* _upb_Message_GetOrCreateMutableMap: _upb_MiniTableField_CheckIsMap,
\* _upb_Message_AssertMapIsUntagged, then get and, on a null field, set
Asserts_Map(m, f) ==
  (IF f = fM THEN {} ELSE {"CheckIsMap"})
    \cup Asserts_Get(f, LE(0, SizeofPtr))
    \cup (IF TaggedPtrIsEmpty(FromLE(upb_Message_GetNonExtensionField(m, f, LE(0, SizeofPtr))))
            THEN {"AssertMapIsUntagged"} ELSE {})
    \cup (IF FromLE(upb_Message_GetNonExtensionField(m, f, LE(0, SizeofPtr))) = 0
            THEN Asserts_Set(f) ELSE {})

(***************************************************************************)
(* The end-to-end scenario: A (4-byte, default 5), the oneof {B, C} with   *)
(* C's default 7, and D.  fA0 is A as a descriptor whose presence field    *)
(* holds 0 ("hasbit 0"), stored in the padding bytes 12..15; fA is A with  *)
(* hasbit 1.  The scenario's calls are made in any order.                  *)
(***************************************************************************)
fA0 == Field(3, 12, 0, "4Byte")

ScnX == StringView(64, 1)
ScnHi == StringView(112, 2)
ScnEmpty == StringView(0, 0)

\* the writes of the scenario: <<field, value>>
ScnWrites ==
  {<<fA, LE(5, 4)>>, <<fA0, LE(5, 4)>>, <<fB, ScnX>>, <<fC, LE(9, 4)>>,
   <<fD, ScnHi>>}

\* _upb_Message_SetField with one of the <<field, value>> pairs of PS
SetPairs(PS) ==
  \E p \in PS :
    /\ msg' = upb_Message_SetNonExtensionField(msg, p[1], p[2])
    /\ lastOp' = Op("set", p[1].number, p[2], WasPresent(msg, p[1]), TRUE, 0)
    /\ UNCHANGED <<internal, mapsMade>>

NextScn ==
  \/ SetPairs(ScnWrites)
  \/ ClearNonExt({fC, fD})

SpecScn == Init /\ [][NextScn]_vars

(***************************************************************************)
(* Properties.                                                             *)
(***************************************************************************)
Has(f) == upb_Message_HasNonExtensionField(msg, f)
Get(f, d) == upb_Message_GetNonExtensionField(msg, f, d)
Case(m, f) == upb_getoneofcase_field(m, f)

\* C1: for every hasbit-tracked field f and every default value, right after
\* set(f, v) has(f) is true and get(f) returns v; right after clear(f) has(f)
\* is false, get(f) returns the default and every storage byte of f is zero.
C1_HasbitRoundTrip ==
  \A f \in HasbitFields :
    /\ (lastOp.op = "set" /\ lastOp.f = f.number) =>
         /\ Has(f)
         /\ \A d \in Defaults(f.rep) : Get(f, d) = lastOp.v
    /\ (lastOp.op = "clear" /\ lastOp.f = f.number) =>
         /\ ~Has(f)
         /\ \A d \in Defaults(f.rep) : SameValue(f.rep, Get(f, d), d)
         /\ Stored(msg, f) = Zeros(RepWidth(f.rep))

\* a present string-view field with hasbit 8 has just been cleared while
\* hasbit 7 of the neighbouring bitmap byte stays set
C1_Witness ==
  /\ lastOp.op = "clear" /\ lastOp.f = fS.number /\ lastOp.had
  /\ upb_hasbit_field(msg, fH)

\* C2: for distinct members X, Y of a oneof group, right after set(X, v)
\* has(X) is true, the case slot holds X's number, get(X) returns v and
\* get(Y) returns Y's default, also when Y was the active member before.
C2_OneofSet ==
  \A x \in OneofFields :
    (lastOp.op = "set" /\ lastOp.f = x.number) =>
      /\ Has(x)
      /\ Case(msg, x) = x.number
      /\ \A d \in Defaults(x.rep) : Get(x, d) = lastOp.v
      /\ \A y \in OneofGroup(x) \ {x} :
           /\ ~Has(y)
           /\ \A d \in Defaults(y.rep) : Get(y, d) = d

\* set(C, 9) after B held "x": B's size bytes are still in the shared storage
C2_Witness ==
  /\ lastOp.op = "set" /\ lastOp.f = fC.number /\ lastOp.v = LE(9, 4)
  /\ SvSize(Stored(msg, fB)) = 1

\* C3: clear(f) on a oneof member f whose case slot does not hold f's number
\* changes nothing: no byte of the message, no extension data.
C3_ClearInactiveNoOp ==
  [][\A f \in OneofFields :
       (lastOp'.op = "clear" /\ lastOp'.f = f.number /\ Case(msg, f) # f.number)
         => (msg' = msg /\ internal' = internal /\ mapsMade' = mapsMade)]_vars

\* clear(B) was called while C = 9 is the active member
C3_Witness ==
  /\ lastOp.op = "clear" /\ lastOp.f = fB.number /\ ~lastOp.had
  /\ Case(msg, fC) = fC.number
  /\ Stored(msg, fC) = LE(9, 4)

\* bytes of the message region that belong to field f's storage
StorageOf(f) == f.offset..(f.offset + RepWidth(f.rep) - 1)

\* bytes of the case slot of oneof member f
CaseSlotOf(f) == upb_oneofcase_ofs(f)..(upb_oneofcase_ofs(f) + 3)

\* C4: clear(f) on the active member f of a oneof resets the case slot to 0
\* and zero-fills exactly f's own storage; afterwards has(f) is false, get(f)
\* returns the default, and get of every other member is what it was (that
\* member's default).
C4_ClearActive ==
  [][\A f \in OneofFields :
       (lastOp'.op = "clear" /\ lastOp'.f = f.number /\ Case(msg, f) = f.number)
         => /\ Case(msg', f) = 0
            /\ Stored(msg', f) = Zeros(RepWidth(f.rep))
            /\ \A k \in MsgBytes \ (StorageOf(f) \cup CaseSlotOf(f)) : msg'[k] = msg[k]
            /\ ~upb_Message_HasNonExtensionField(msg', f)
            /\ \A d \in Defaults(f.rep) :
                 upb_Message_GetNonExtensionField(msg', f, d) = d
            /\ \A g \in OneofGroup(f) \ {f} : \A d \in Defaults(g.rep) :
                 /\ upb_Message_GetNonExtensionField(msg', g, d)
                      = upb_Message_GetNonExtensionField(msg, g, d)
                 /\ upb_Message_GetNonExtensionField(msg', g, d) = d]_vars

\* the active member C was cleared; B's bytes beyond C's width are untouched
C4_Witness ==
  /\ lastOp.op = "clear" /\ lastOp.f = fC.number /\ lastOp.had
  /\ Case(msg, fC) = 0
  /\ SvSize(Stored(msg, fB)) = 1

\* C5: every oneof case slot holds 0 or the number of one member of its
\* group, so at most one member of a group is present.
C5_CaseSlotValid ==
  \A f \in OneofFields :
    /\ Case(msg, f) \in {0} \cup {g.number : g \in OneofGroup(f)}
    /\ Cardinality({g \in OneofGroup(f) : Has(g)}) <= 1

\* B has just become the active member of its group
C5_Witness ==
  /\ Case(msg, fB) = fB.number /\ Has(fB) /\ ~Has(fC)
  /\ lastOp.op = "set" /\ lastOp.f = fB.number /\ ~lastOp.had

HasExt(in, e) == upb_Message_HasExtensionField(in, e)
GetExt(in, e, d) == upb_Message_GetExtensionField(in, e, d)

\* C6: for every extension e, right after a set(e, v) that returned true
\* has(e) is true and get(e) returns v, also when e was present before; right
\* after clear(e) has(e) is false and get(e) returns the supplied default.
C6_ExtRoundTrip ==
  \A e \in Exts :
    /\ (lastOp.op = "setext" /\ lastOp.f = e.field.number /\ lastOp.ok) =>
         /\ HasExt(internal, e)
         /\ \A d \in Defaults(e.field.rep) : GetExt(internal, e, d) = lastOp.v
    /\ (lastOp.op = "clearext" /\ lastOp.f = e.field.number) =>
         /\ ~HasExt(internal, e)
         /\ \A d \in Defaults(e.field.rep) : GetExt(internal, e, d) = d

\* extension 1, already present, was set to 9 while extension 2 is present
C6_Witness ==
  /\ lastOp.op = "setext" /\ lastOp.f = Ext(1).field.number
  /\ lastOp.had /\ lastOp.ok /\ lastOp.v = LE(9, 4)
  /\ HasExt(internal, Ext(2))

\* C7: clear(e) leaves has and get of every other extension unchanged.
C7_ClearExtFrame ==
  [][\A e \in Exts :
       (lastOp'.op = "clearext" /\ lastOp'.f = e.field.number) =>
         \A o \in Exts \ {e} :
           /\ HasExt(internal', o) = HasExt(internal, o)
           /\ \A d \in Defaults(o.field.rep) :
                GetExt(internal', o, d) = GetExt(internal, o, d)]_vars

\* extension 1 was present and cleared; extension 2, the front entry, now
\* lives in the slot extension 1 had, and its old slot lies before ext_begin
C7_Witness ==
  /\ lastOp.op = "clearext" /\ lastOp.f = Ext(1).field.number /\ lastOp.had
  /\ internal.ext_begin >= 1
  /\ internal.slots[internal.ext_begin].ext = 2
  /\ GetExt(internal, Ext(2), <<0>>) = <<1>>

\* C8: the active window holds at most one entry per extension descriptor,
\* and every entry of the window belongs to a descriptor.
C8_OneEntryPerExt ==
  /\ \A e \in Exts :
       Cardinality({i \in Window(internal) : internal.slots[i].ext = e.id}) <= 1
  /\ \A i \in Window(internal) : internal.slots[i].ext \in ExtIds

\* after a set, a copy left behind by an earlier clear lies outside the
\* window while the same descriptor has its entry inside
C8_Witness ==
  /\ lastOp.op = "setext" /\ lastOp.ok
  /\ \E i \in 1..internal.ext_begin : \E j \in Window(internal) :
       internal.slots[i].ext = internal.slots[j].ext

\* C9: a set(e, v) that returns false leaves has and get of every field and
\* every extension unchanged, and a set that returns true has stored v.
C9_FailedSetExt ==
  [][\A e \in Exts :
       (lastOp'.op = "setext" /\ lastOp'.f = e.field.number) =>
         /\ ~lastOp'.ok =>
              /\ msg' = msg /\ mapsMade' = mapsMade
              /\ ~HasExt(internal, e)
              /\ \A o \in Exts :
                   /\ HasExt(internal', o) = HasExt(internal, o)
                   /\ \A d \in Defaults(o.field.rep) :
                        GetExt(internal', o, d) = GetExt(internal, o, d)
         /\ lastOp'.ok =>
              /\ HasExt(internal', e)
              /\ GetExt(internal', e, Zeros(ExtDataBytes)) = lastOp'.v]_vars

\* a set failed for want of memory while the window was full with one entry
C9_Witness ==
  /\ lastOp.op = "setext" /\ ~lastOp.ok
  /\ internal.size >= 1 /\ internal.ext_begin = 0
  /\ upb_hasbit_field(msg, fA)

\* maps constructed by the call lastOp records (lastOp.ok: it constructed one)
Constructed(op) == IF op.ok THEN 1 ELSE 0

C11_MapFailure ==
  [][(lastOp'.op = "map") =>
       /\ (lastOp'.ref = 0) =>
            /\ msg' = msg /\ internal' = internal /\ mapsMade' = mapsMade
            /\ Stored(msg', fM) = Zeros(SizeofPtr)
            /\ upb_Message_GetNonExtensionField(msg', fM, LE(0, SizeofPtr))
                 = LE(0, SizeofPtr)
       /\ (~lastOp'.had /\ ~lastOp'.ok) => lastOp'.ref = 0]_vars

\* map construction failed on a message whose fields A and B are in use and
\* whose first map had been cleared from the field
C11_Witness ==
  /\ lastOp.op = "map" /\ lastOp.ref = 0 /\ ~lastOp.ok /\ ~lastOp.had
  /\ mapsMade = 1
  /\ Has(fA) /\ Case(msg, fB) = fB.number

\* a default the descriptor invariants allow for field f: a non-zero default
\* needs presence tracking
ValidDefaults(f) ==
  {d \in Defaults(f.rep) : upb_MiniTable_ValueIsNonZero(d, f) => f.presence # 0}

\* presence of f read straight from the message bytes
PresenceBit(m, f) ==
  IF f.presence < 0
    THEN FromLE(ReadBytes(m, (-f.presence) - 1, 4)) = f.number
    ELSE (m[f.presence \div 8] \div (2 ^ (f.presence % 8))) % 2 = 1

\* d is not the zero value of its class: some byte is non-zero, or, for a
\* string view, the size is non-zero
NonZeroDefault(f, d) ==
  IF f.rep = "StringView"
    THEN \E k \in (SizeofPtr + 1)..SizeofStringView : d[k] # 0
    ELSE \E k \in 1..RepWidth(f.rep) : d[k] # 0

\* C12: get(f, d) returns d when (f is in a oneof or d is non-zero) and f is
\* not present, and the bytes stored at f's offset in every other case.
C12_GetCases ==
  \A f \in Fields : \A d \in ValidDefaults(f) :
    Get(f, d) = IF (f.presence < 0 \/ NonZeroDefault(f, d)) /\ ~PresenceBit(msg, f)
                  THEN d
                  ELSE [k \in 1..RepWidth(f.rep) |-> msg[f.offset + k - 1]]

\* C is active over B's old bytes, S is present and A is not: get(B) and
\* get(A, 5) take the default, get(S) and get(A, 0) the stored bytes
C12_Witness ==
  /\ Case(msg, fC) = fC.number /\ SvSize(Stored(msg, fB)) = 1
  /\ Get(fB, StringView(0, 0)) = StringView(0, 0)
  /\ Has(fS) /\ Get(fS, StringView(96, 2)) = StringView(64, 1)
  /\ ~Has(fA) /\ Get(fA, LE(5, 4)) = LE(5, 4) /\ Get(fA, LE(0, 4)) = LE(0, 4)

\* The scenario's postconditions with field a playing the role of A: what
\* each call of the scenario leaves behind, for every state it is made in.
ScnFresh(a) ==
  lastOp.op = "new" =>
    /\ Get(a, LE(5, 4)) = LE(5, 4)
    /\ SameValue("StringView", Get(fB, ScnEmpty), ScnEmpty)
    /\ Get(fC, LE(7, 4)) = LE(7, 4)
    /\ SameValue("StringView", Get(fD, ScnEmpty), ScnEmpty)

ScnSetA(a) ==
  (lastOp.op = "set" /\ lastOp.f = a.number) =>
    /\ Has(a)
    /\ Get(a, LE(5, 4)) = LE(5, 4)

ScnOneof ==
  /\ (lastOp.op = "set" /\ lastOp.f = fB.number) =>
       /\ Case(msg, fB) = 10
       /\ Get(fB, ScnEmpty) = ScnX
       /\ Get(fC, LE(7, 4)) = LE(7, 4)
  /\ (lastOp.op = "set" /\ lastOp.f = fC.number) =>
       /\ Case(msg, fC) = 11
       /\ Get(fC, LE(7, 4)) = LE(9, 4)
       /\ SameValue("StringView", Get(fB, ScnEmpty), ScnEmpty)
  /\ (lastOp.op = "clear" /\ lastOp.f = fC.number /\ lastOp.had) =>
       /\ Case(msg, fC) = 0
       /\ Get(fC, LE(7, 4)) = LE(7, 4)
       /\ SameValue("StringView", Get(fB, ScnEmpty), ScnEmpty)

ScnImplicit ==
  /\ (lastOp.op = "set" /\ lastOp.f = fD.number) => Get(fD, ScnEmpty) = ScnHi
  /\ (lastOp.op = "clear" /\ lastOp.f = fD.number) =>
       SameValue("StringView", Get(fD, ScnEmpty), ScnEmpty)

\* C13 as stated: A's presence field holds 0 ("hasbit 0").  set(A, 5) then
\* has(A) does not give true: presence 0 is implicit presence, SetPresence
\* records nothing and the has-check reads bit 0 of the bitmap, which no
\* field owns (and fails UPB_ASSERT(HasPresence) where assertions are on).
C13_AsStated ==
  ScnFresh(fA0) /\ ScnSetA(fA0) /\ ScnOneof /\ ScnImplicit

\* C13: the end-to-end scenario with A tracked by a hasbit of positive index
\* (hasbit 1): the fresh message reads back the defaults 5, "", 7, "";
\* set(A,5) gives has(A) and 5; set(B,"x") gives case 10, "x" and C's default;
\* set(C,9) gives case 11, 9 and B's default; clear(C) of the active C gives
\* case 0 and both defaults; set(D,"hi") reads back "hi"; clear(D) reads "".
C13_Scenario ==
  ScnFresh(fA) /\ ScnSetA(fA) /\ ScnOneof /\ ScnImplicit

\* the scenario's last state: A set, the oneof cleared after B then C were
\* set (the second half of B's view is still in the union's storage), D
\* written and cleared
C13_Witness ==
  /\ lastOp.op = "clear" /\ lastOp.f = fD.number
  /\ Has(fA) /\ Get(fA, LE(0, 4)) = LE(5, 4)
  /\ Case(msg, fB) = 0
  /\ msg[fB.offset + SizeofPtr] = 1
  /\ Stored(msg, fC) = Zeros(4)
  /\ Stored(msg, fD) = Zeros(SizeofStringView)
  /\ Get(fC, LE(7, 4)) = LE(7, 4)

\* the bytes of the message that hold hasbits (hasbits 1, 7 and 8)
BitmapBytes == {upb_hasbit_ofs(upb_Message_Hasidx(f)) : f \in HasbitFields}

\* the zero defaults an implicit-presence field may be read with
ZeroDefaults(f) == {d \in Defaults(f.rep) : ~upb_MiniTable_ValueIsNonZero(d, f)}

\* get(f, d) on message m whatever the bitmap bytes hold
GetUnderAnyBitmap(m, f, d) ==
  {upb_Message_GetNonExtensionField([i \in MsgBytes |-> IF i \in BitmapBytes THEN b ELSE m[i]], f, d) :
     b \in {0, 255}}

\* what a call on D leaves behind, read with the zero default d
ImplicitAfter(d) ==
  /\ Asserts_Get(fD, d) = {}
  /\ GetUnderAnyBitmap(msg', fD, d) = {Stored(msg', fD)}
  /\ lastOp'.op = "set" => upb_Message_GetNonExtensionField(msg', fD, d) = lastOp'.v
  /\ lastOp'.op = "clear" =>
       /\ upb_Message_GetNonExtensionField(msg', fD, d) = Zeros(SizeofStringView)
       /\ Stored(msg', fD) = Zeros(SizeofStringView)

\* C14: implicit-presence field D (presence 0, zero default).  On the fresh
\* message get(D) is the zero value, and get(D) is the stored bytes whatever
\* the bitmap holds (no has-check is evaluated); after set(D, x) get(D) = x;
\* after clear(D) get(D) is zero and D's storage is all zero; set and clear
\* of D write no byte outside D's storage, so no hasbit and no oneof case
\* slot changes.
C14_ImplicitPresence ==
  [][/\ lastOp.op = "new" =>
          \A d \in ZeroDefaults(fD) :
            /\ Get(fD, d) = Zeros(SizeofStringView)
            /\ GetUnderAnyBitmap(msg, fD, d) = {Zeros(SizeofStringView)}
     /\ lastOp'.f = fD.number =>
          /\ \A d \in ZeroDefaults(fD) : ImplicitAfter(d)
          /\ \A i \in MsgBytes \ StorageOf(fD) : msg'[i] = msg[i]
          /\ \A f \in HasbitFields : upb_hasbit_field(msg', f) = upb_hasbit_field(msg, f)
          /\ Case(msg', fB) = Case(msg, fB)]_vars

\* D has just been cleared in a message whose hasbits 1 and 8 are set and
\* whose oneof holds C
C14_Witness ==
  /\ lastOp.op = "clear" /\ lastOp.f = fD.number
  /\ Stored(msg, fD) = Zeros(SizeofStringView)
  /\ Has(fA) /\ Has(fS) /\ ~Has(fH)
  /\ Case(msg, fC) = fC.number

\* the descriptor of UDescs with field number n
UDescOf(n) == CHOOSE desc \in UDescs : desc.field.number = n

\* C15: the unified set dispatches on the descriptor's extension flag alone.
\* On a non-extension field it returns true, the result is the same for
\* every arena argument (null, usable, exhausted), and nothing is allocated:
\* the extension buffer and the count of maps are unchanged.  On an
\* extension field its return value is the outcome of the entry creation
\* with the arena that was passed, and the message bytes are unchanged.
C15_UnifiedSet ==
  [][(lastOp'.op = "setfield") =>
       LET desc == UDescOf(lastOp'.f)
       IN IF ~desc.field.isExtension
            THEN /\ lastOp'.ok
                 /\ msg' = upb_Message_SetNonExtensionField(msg, desc.field, lastOp'.v)
                 /\ internal' = internal /\ mapsMade' = mapsMade
                 /\ \A a \in Arenas :
                      upb_Message_SetField(msg, internal, desc, lastOp'.v, a)
                        = [ok |-> TRUE, msg |-> msg', internal |-> internal]
            ELSE /\ lastOp'.ok =
                      (upb_Message_GetOrCreateExtension(
                         internal, desc, lastOp'.arena = "ok").ext # 0)
                 /\ internal' = upb_Message_SetExtensionField(
                                  internal, desc, lastOp'.v, lastOp'.arena = "ok").internal
                 /\ msg' = msg /\ mapsMade' = mapsMade]_vars

\* a plain field was set through the unified setter with a null arena while
\* the message holds an extension
C15_Witness ==
  /\ lastOp.op = "setfield" /\ lastOp.f = fA.number
  /\ lastOp.arena = "null" /\ lastOp.ok
  /\ Has(fA)
  /\ HasExt(internal, Ext(1))

\* C16: get on a oneof member never returns another member's value or
\* residual bytes of the shared storage.  After every step, get(m, d) is the
\* default d, or the step was set(m, v) and get(m, d) = v, or m was the
\* active member before and after the step and get(m, d) is what it was: so
\* get(m, d) is always d or the value of the latest set(m, .).
C16_OneofGetIsolated ==
  [][\A m \in OneofFields : \A d \in Defaults(m.rep) :
       LET got == upb_Message_GetNonExtensionField(msg', m, d)
       IN \/ got = d
          \/ /\ lastOp'.op = "set" /\ lastOp'.f = m.number
             /\ got = lastOp'.v
          \/ /\ Case(msg, m) = m.number /\ Case(msg', m) = m.number
             /\ got = upb_Message_GetNonExtensionField(msg, m, d)]_vars

\* C was cleared while active after B had been set: B's bytes 20..31 are
\* still in the shared storage, and both members read as their defaults
C16_Witness ==
  /\ lastOp.op = "clear" /\ lastOp.f = fC.number /\ lastOp.had
  /\ Case(msg, fC) = 0
  /\ msg[fB.offset + SizeofPtr] # 0
  /\ Get(fB, StringView(96, 2)) = StringView(96, 2)
  /\ Get(fC, LE(7, 4)) = LE(7, 4)

\* the (descriptor, value) pairs of the active window
WindowPairs(in) == {<<in.slots[i].ext, in.slots[i].data>> : i \in Window(in)}

\* C17: extension clear(e).  If e has no entry in the active window (or the
\* message has no extension storage) nothing changes.  Otherwise the target
\* entry is overwritten with the window's front entry and begin advances by
\* exactly one entry: the pairs of the window afterwards are the pairs before
\* minus e's pair, and the window is one entry shorter.
C17_ClearExtWindow ==
  [][\A e \in Exts :
       (lastOp'.op = "clearext" /\ lastOp'.f = e.field.number) =>
         LET t == upb_Message_Getext(internal, e)
         IN IF internal.size = 0 \/ t = 0
              THEN internal' = internal /\ msg' = msg
              ELSE /\ internal'.slots[t] = internal.slots[internal.ext_begin + 1]
                   /\ internal'.ext_begin = internal.ext_begin + 1
                   /\ internal'.size = internal.size
                   /\ \A i \in Window(internal') \ {t} :
                        internal'.slots[i] = internal.slots[i]
                   /\ WindowPairs(internal') =
                        WindowPairs(internal) \ {<<e.id, internal.slots[t].data>>}
                   /\ Cardinality(Window(internal')) =
                        Cardinality(Window(internal)) - 1]_vars

\* extension 2 was cleared out of a window that held both extensions:
\* extension 1 is the one entry left, with its non-zero value
C17_Witness ==
  /\ lastOp.op = "clearext" /\ lastOp.f = Ext(2).field.number /\ lastOp.had
  /\ Cardinality(Window(internal)) = 1
  /\ HasExt(internal, Ext(1)) /\ ~HasExt(internal, Ext(2))
  /\ GetExt(internal, Ext(1), LE(0, 4)) = LE(9, 4)

\* C18: for every field descriptor that satisfies the descriptor invariants
\* (one presence mechanism; a non-zero default only with presence # 0), in
\* every reachable state no get, set, clear or getOrCreateMap call evaluates
\* an assertion to false: the has-check is reached only with presence # 0,
\* the hasbit index only with presence > 0, the oneof slot offset only with
\* presence < 0, and the stored map pointer is never a tagged one.
C18_NoFailingAssertion ==
  /\ \A f \in Fields :
       /\ \A d \in ValidDefaults(f) : Asserts_Get(f, d) = {}
       /\ Asserts_Set(f) = {}
       /\ Asserts_Clear(f) = {}
       /\ f.presence # 0 => Asserts_Has(f) = {}
  /\ Asserts_Map(msg, fM) = {}

\* the map field holds a constructed map (a non-null pointer passes the
\* untagged check) while implicit-presence D holds a value and the oneof
\* holds B
C18_Witness ==
  /\ FromLE(Stored(msg, fM)) = MapAddr(1)
  /\ lastOp.op = "map" /\ lastOp.had
  /\ Stored(msg, fD) = StringView(64, 1)
  /\ Case(msg, fB) = fB.number
  /\ ~Has(fA)

\* C19: in every state reachable from the zero-initialised message by set,
\* clear and getOrCreateMap, a hasbit-tracked field whose hasbit is clear has
\* all-zero storage; so get with a zero default, which skips the has-check
\* and copies the storage, returns the default whenever has(f) is false.
C19_ClearHasbitZeroStorage ==
  \A f \in HasbitFields :
    ~upb_hasbit_field(msg, f) =>
      /\ Stored(msg, f) = Zeros(RepWidth(f.rep))
      /\ \A d \in ZeroDefaults(f) :
           /\ Get(f, d) = Stored(msg, f)
           /\ SameValue(f.rep, Get(f, d), d)

\* A held a value and was cleared, while the 1-byte field H, whose hasbit
\* shares A's bitmap byte, holds 1 and S is absent
C19_Witness ==
  /\ lastOp.op = "clear" /\ lastOp.f = fA.number /\ lastOp.had
  /\ ~Has(fA) /\ ~Has(fS)
  /\ Has(fH) /\ Stored(msg, fH) = <<1>>
  /\ FromLE(Stored(msg, fM)) # 0

\* the bytes a set or clear of plain field f may write: its storage, the
\* bitmap byte of its hasbit, its oneof case slot
Touched(f) ==
  StorageOf(f)
    \cup (IF f.presence > 0 THEN {upb_hasbit_ofs(upb_Message_Hasidx(f))} ELSE {})
    \cup (IF f.presence < 0 THEN CaseSlotOf(f) ELSE {})

\* has and get of field g are the same in messages m1 and m2
SameHasGet(m1, m2, g) ==
  /\ g.presence # 0 =>
       upb_Message_HasNonExtensionField(m1, g) = upb_Message_HasNonExtensionField(m2, g)
  /\ \A d \in ValidDefaults(g) :
       upb_Message_GetNonExtensionField(m1, g, d) = upb_Message_GetNonExtensionField(m2, g, d)

\* a step of set or clear on plain field f
PlainFrame(f) ==
  /\ internal' = internal
  /\ \A i \in MsgBytes \ Touched(f) : msg'[i] = msg[i]
  /\ \A g \in Fields \ ({f} \cup OneofGroup(f)) :
       (StorageOf(g) \cap StorageOf(f) = {}) => SameHasGet(msg, msg', g)
  /\ f.presence > 0 =>
       LET idx == upb_Message_Hasidx(f)
       IN \A bit \in 0..7 :
            ByteTest(msg'[upb_hasbit_ofs(idx)], 2 ^ bit) =
              IF bit = idx % 8 THEN lastOp'.op = "setfield"
              ELSE ByteTest(msg[upb_hasbit_ofs(idx)], 2 ^ bit)

\* C20: set(f, .) and clear(f) on a non-extension field f leave has and get
\* of every other field outside f's oneof group and storage unchanged: of
\* the bitmap byte only f's own bit changes (bits 0..7, bit 7 included),
\* only f's storage, hasbit byte and case slot are written, and the
\* extension window is untouched.  Extension set and clear change no byte of
\* the message, so no plain field's has or get.
C20_Frame ==
  [][(lastOp'.op \in {"setfield", "clear", "clearext"}) =>
       LET desc == UDescOf(lastOp'.f)
       IN IF desc.field.isExtension
            THEN /\ msg' = msg
                 /\ \A g \in Fields : SameHasGet(msg, msg', g)
            ELSE PlainFrame(desc.field)]_vars

\* H, whose hasbit is bit 7, was cleared while A (bit 1 of the same byte)
\* holds 9, the oneof holds C and the extension window holds an entry
C20_Witness ==
  /\ lastOp.op = "clear" /\ lastOp.f = fH.number /\ lastOp.had
  /\ Has(fA) /\ Get(fA, LE(0, 4)) = LE(9, 4)
  /\ Case(msg, fC) = fC.number
  /\ HasExt(internal, Ext(1))

================================================================
